---- MODULE Spec2Model ----
(***************************************************************************)
(* Model of the terminal process monitor in src/main.cpp: the warm-up      *)
(* sample, the main loop (key dispatch, sampling, delta computation, sort, *)
(* previous-sample store update, render) and the kill-by-PID modal.        *)
(*                                                                         *)
(* Conventions.  Characters and keys are their integer codes, as in the    *)
(* source.  A double is the exact rational [num, den] of the division that *)
(* produced it; den = 0 stands for the non-finite result (NaN or an        *)
(* infinity) of an IEEE division by zero.  pidStr holds the i live bytes   *)
(* of the array; bytes at index >= i are never read before they are        *)
(* rewritten.  The loop-body locals are reset when the iteration ends.     *)
(* Process.user and the text of Process.name play no part in any checked   *)
(* property and are left out (the name is only tested for emptiness).      *)
(***************************************************************************)
EXTENDS Integers, Sequences, FiniteSets, TLC

VARIABLES
    pc,                 \* position of the single thread
    phase,              \* "warmup" (main.cpp 420-429) or "tick" (433-489)
    exitStatus,         \* -1 while running, the value returned by main
    currentSortMode,    \* global, main.cpp 45
    prevSysCpuTimes,    \* global, main.cpp 49
    prevProcessTimes,   \* global, main.cpp 48: pid -> <<utime, stime>>
    memTotal,           \* locals of the loop body
    memUsed,
    currentSysCpuTimes,
    totalDelta,
    sysCpuUsage,
    dir,                \* entries readdir has still to return
    processes,          \* the vector built by getProcesses, then sorted
    i,                  \* locals of killProcessWindow
    pidStr,
    ch,                 \* the key wgetch returned last (ERR before the first)
    sent,               \* kill() calls made by the last step: <<>> or <<pid>>
    screen,             \* what the terminal shows
    sampled,            \* history: the last sample taken: the system counters
                        \* and the <<pid, utime, stime>> of each process emitted
    emitted,            \* history: the vector as getProcesses returned it
    firstSeen           \* history: pids emitted this scan that were not in
                        \* prevProcessTimes

vars == <<pc, phase, exitStatus, currentSortMode, prevSysCpuTimes,
          prevProcessTimes, memTotal, memUsed, currentSysCpuTimes, totalDelta,
          sysCpuUsage, dir, processes, i, pidStr, ch, sent, screen, sampled,
          emitted, firstSeen>>

----------------------------------------------------------------------------
(* Program constants *)

KEY_ESC == 27
KEY_ENTER == 10
KEY_BACKSPACE == 263
KEY_DEL == 127
ERR == -1
PidStrSize == 20
MaxDigits == 19
INT_MAX == 2147483647
SIGTERM == 15

SortModes == {"BY_CPU", "BY_MEM", "BY_PID"}

IsDigit(c) == c >= 48 /\ c <= 57

----------------------------------------------------------------------------
(* Doubles as exact rationals *)

Frac(n, d) == [num |-> n, den |-> d]

ZeroD == Frac(0, 1)

\* a > b for finite a, b
FracGt(a, b) == a.num * b.den > b.num * a.den

----------------------------------------------------------------------------
(* std::stoi on a NUL-terminated string of character codes.  The strings   *)
(* parsed here (the kill buffer, directory names) carry no leading blank   *)
(* or sign.                                                                *)

RECURSIVE DigitPrefix(_)
DigitPrefix(s) ==
    IF s = <<>> \/ ~IsDigit(Head(s)) THEN <<>>
    ELSE <<Head(s)>> \o DigitPrefix(Tail(s))

\* The value of a digit string, or -1 once it exceeds INT_MAX (strtol's
\* result no longer fits an int).  The test is made before each multiplication.
RECURSIVE Accumulate(_, _)
Accumulate(acc, s) ==
    IF s = <<>> THEN acc
    ELSE IF acc > (INT_MAX - (Head(s) - 48)) \div 10 THEN -1
    ELSE Accumulate(acc * 10 + (Head(s) - 48), Tail(s))

\* [ok |-> TRUE, val |-> n], or [ok |-> FALSE, ...] when stoi throws
\* (invalid_argument without a leading digit, out_of_range beyond int)
Stoi(s) ==
    LET d == DigitPrefix(s)
        v == Accumulate(0, d)
    IN  IF d = <<>> THEN [ok |-> FALSE, val |-> 0]
        ELSE IF v < 0 THEN [ok |-> FALSE, val |-> 0]
        ELSE [ok |-> TRUE, val |-> v]

----------------------------------------------------------------------------
(* SystemStatsSampler *)

ZeroCpu == [user |-> 0, nice |-> 0, system |-> 0, idle |-> 0, iowait |-> 0,
            irq |-> 0, softirq |-> 0, steal |-> 0, total |-> 0]

\* getSystemCpuTimes on the first line of /proc/stat: src.cpuLine says whether
\* the line read starts with "cpu" (it does not when the file is unreadable),
\* src.f are the eight counters that follow the label.
GetSystemCpuTimes(src) ==
    IF ~src.cpuLine THEN ZeroCpu
    ELSE [user |-> src.f[1], nice |-> src.f[2], system |-> src.f[3],
          idle |-> src.f[4], iowait |-> src.f[5], irq |-> src.f[6],
          softirq |-> src.f[7], steal |-> src.f[8],
          total |-> src.f[1] + src.f[2] + src.f[3] + src.f[4] + src.f[5]
                    + src.f[6] + src.f[7] + src.f[8]]

\* getMemoryInfo on /proc/meminfo: src says which of the two keys the file
\* carries and with what value; a key that is absent (or the whole file)
\* leaves its field 0.
GetMemoryInfo(src) ==
    <<IF src.hasTotal THEN src.total ELSE 0,
      IF src.hasAvailable THEN src.available ELSE 0>>

\* main.cpp 461
SysCpuUsage(td, idleDelta) ==
    IF td > 0 THEN Frac(100 * (td - idleDelta), td) ELSE ZeroD

\* drawSystemInfo, main.cpp 357: the division is not guarded
MemPercentShown(used, total) == Frac(100 * used, total)

----------------------------------------------------------------------------
(* ProcessSampler and DeltaEngine: one iteration of the readdir loop *)

\* main.cpp 212-223
CpuPercent(utime, stime, pid, prevTimes, totalCpuTimeDelta) ==
    LET currentProcessTotalTime == utime + stime
        prevProcessTotalTime ==
            IF pid \in DOMAIN prevTimes
            THEN prevTimes[pid][1] + prevTimes[pid][2] ELSE 0
        processTimeDelta == currentProcessTotalTime - prevProcessTotalTime
    IN  IF totalCpuTimeDelta > 0
        THEN Frac(100 * processTimeDelta, totalCpuTimeDelta)
        ELSE ZeroD

\* main.cpp 226-230
MemPercent(memRssKb, totalSystemMemKb) ==
    IF totalSystemMemKb > 0 THEN Frac(100 * memRssKb, totalSystemMemKb)
    ELSE ZeroD

\* The body of the while loop of getProcesses for the directory entry `name`
\* whose files are `f`.  kind: "skip" (continue), "throw" (an exception leaves
\* getProcesses: substr or stol on the status file, which no handler catches)
\* or "emit" (push_back of p).
ProcessEntry(name, f, prevTimes, totalSystemMemKb, totalCpuTimeDelta) ==
    LET n == Stoi(name)
        none == [pid |-> 0, cpuPercent |-> ZeroD, memPercent |-> ZeroD,
                 memRssKb |-> 0, utime |-> 0, stime |-> 0]
        rss == IF f.vmrss = "value" THEN f.rssKb ELSE 0
    IN  IF ~n.ok THEN [kind |-> "skip", p |-> none]
        ELSE IF ~f.statOpen THEN [kind |-> "skip", p |-> none]
        ELSE IF ~f.statusOpen THEN [kind |-> "skip", p |-> none]
        ELSE IF f.name = "short" THEN [kind |-> "throw", p |-> none]
        ELSE IF f.vmrss \in {"short", "malformed"}
             THEN [kind |-> "throw", p |-> none]
        ELSE IF f.name \in {"missing", "blank"}
             THEN [kind |-> "skip", p |-> none]
        ELSE [kind |-> "emit",
              p |-> [pid |-> n.val,
                     cpuPercent |-> CpuPercent(f.utime, f.stime, n.val,
                                               prevTimes, totalCpuTimeDelta),
                     memPercent |-> MemPercent(rss, totalSystemMemKb),
                     memRssKb |-> rss,
                     utime |-> f.utime, stime |-> f.stime]]

----------------------------------------------------------------------------
(* SortEngine *)

\* compareByCpu, compareByMem, compareByPid
Compare(mode, a, b) ==
    CASE mode = "BY_CPU" -> FracGt(a.cpuPercent, b.cpuPercent)
      [] mode = "BY_MEM" -> FracGt(a.memPercent, b.memPercent)
      [] mode = "BY_PID" -> a.pid < b.pid

\* std::sort: any arrangement of the vector that the comparator accepts
\* (the order of equivalent elements is unspecified)
SortResults(procs, mode) ==
    LET n == Len(procs)
        arr == {[k \in 1..n |-> procs[q[k]]] : q \in Permutations(1..n)}
    IN  {L \in arr : \A a, b \in 1..n : a < b => ~Compare(mode, L[b], L[a])}

\* Variant: the update without prevProcessTimes.clear()
UpdateWithoutClear(old, procs) ==
    LET pids == {procs[k].pid : k \in 1..Len(procs)}
    IN  [pid \in DOMAIN old \cup pids |->
            IF pid \in pids
            THEN LET k == CHOOSE j \in 1..Len(procs) : procs[j].pid = pid
                 IN  <<procs[k].utime, procs[k].stime>>
            ELSE old[pid]]

\* main.cpp 478-481: clear, then one entry per process
UpdatePrevProcessTimes(old, procs) ==
    LET pids == {procs[k].pid : k \in 1..Len(procs)}
    IN  [pid \in pids |->
            LET k == CHOOSE j \in 1..Len(procs) :
                        procs[j].pid = pid
                        /\ \A h \in (j+1)..Len(procs) : procs[h].pid # pid
            IN  <<procs[k].utime, procs[k].stime>>]

\* main.cpp 426-428: entries are added to the (still empty) map
WarmupProcessTimes(old, procs) ==
    LET new == UpdatePrevProcessTimes(old, procs)
    IN  [pid \in DOMAIN old \cup DOMAIN new |->
            IF pid \in DOMAIN new THEN new[pid] ELSE old[pid]]

----------------------------------------------------------------------------
(* Inputs: what the operating system and the keyboard may deliver *)

CpuSources ==
    { [cpuLine |-> FALSE, f |-> <<0, 0, 0, 0, 0, 0, 0, 0>>],
      [cpuLine |-> TRUE, f |-> <<100, 0, 50, 850, 0, 0, 0, 0>>],
      [cpuLine |-> TRUE, f |-> <<110, 0, 60, 870, 0, 0, 0, 0>>] }

\* values in MiB-sized units so that every product stays within TLC's integers
MemSources ==
    { [hasTotal |-> FALSE, total |-> 0, hasAvailable |-> FALSE, available |-> 0],
      [hasTotal |-> TRUE, total |-> 8000,
       hasAvailable |-> TRUE, available |-> 2000] }

\* directory entry names: "1", "2", "self"
Name1 == <<49>>
Name2 == <<50>>
NameSelf == <<115, 101, 108, 102>>

\* opendir("/proc") and the entries readdir then returns, in order
ProcDirs ==
    { [open |-> FALSE, entries |-> <<>>],
      [open |-> TRUE, entries |-> <<NameSelf>>],
      [open |-> TRUE, entries |-> <<Name1, NameSelf>>],
      [open |-> TRUE, entries |-> <<Name2>>],
      [open |-> TRUE, entries |-> <<Name1, Name2>>],
      [open |-> TRUE, entries |-> <<NameSelf, Name2, Name1>>] }

File(statOpen, utime, stime, statusOpen, name, vmrss, rssKb) ==
    [statOpen |-> statOpen, utime |-> utime, stime |-> stime,
     statusOpen |-> statusOpen, name |-> name, vmrss |-> vmrss,
     rssKb |-> rssKb]

\* /proc/<pid>/stat and /proc/<pid>/status as found when the entry is read.
\* name: "ok" (a Name line with a value), "missing" (no Name line), "blank"
\* (a Name line whose value is whitespace), "short" (the line is "Name:",
\* so substr(6) is out of range).  vmrss: "value", "missing" (no VmRSS line),
\* "short" (the line is "VmRSS:"), "malformed" (no number after the key).
ProcFiles ==
    { File(FALSE, 0, 0, FALSE, "missing", "missing", 0),
      File(TRUE, 3, 1, FALSE, "missing", "missing", 0),
      File(TRUE, 3, 1, TRUE, "missing", "value", 100),
      File(TRUE, 3, 1, TRUE, "blank", "value", 100),
      File(TRUE, 3, 1, TRUE, "short", "value", 100),
      File(TRUE, 3, 1, TRUE, "ok", "malformed", 0),
      File(TRUE, 3, 1, TRUE, "ok", "short", 0),
      File(TRUE, 3, 1, TRUE, "ok", "value", 100),
      File(TRUE, 7, 2, TRUE, "ok", "value", 200),
      File(TRUE, 1, 0, TRUE, "ok", "missing", 0) }

\* getch() in the main loop: 'q', 'c', 'm', 'p', 'k', another key, a timeout
QuitKey == 113
KillKey == 107
SortKeys == {99, 109, 112}
OtherMainKeys == {ERR, 120}

\* wgetch() in the kill window: keys other than Esc and Enter ('0', '1',
\* '9', backspace, delete, 'q', 'k', 'c').  The keys are
\* characters or KEY_BACKSPACE, the values for which isdigit is defined.
KillWindowKeys == {48, 49, 57, KEY_BACKSPACE, KEY_DEL, 113, 107, 99}

----------------------------------------------------------------------------
(* Initial state: the globals as constructed, main about to sample *)

NoLocals ==
    /\ memTotal' = 0
    /\ memUsed' = 0
    /\ currentSysCpuTimes' = ZeroCpu
    /\ totalDelta' = 0
    /\ sysCpuUsage' = ZeroD
    /\ dir' = <<>>
    /\ processes' = <<>>
    /\ emitted' = <<>>
    /\ firstSeen' = {}

Init ==
    /\ pc = "start"
    /\ phase = "warmup"
    /\ exitStatus = -1
    /\ currentSortMode = "BY_CPU"
    /\ prevSysCpuTimes = ZeroCpu
    /\ prevProcessTimes = <<>>
    /\ memTotal = 0
    /\ memUsed = 0
    /\ currentSysCpuTimes = ZeroCpu
    /\ totalDelta = 0
    /\ sysCpuUsage = ZeroD
    /\ dir = <<>>
    /\ processes = <<>>
    /\ i = 0
    /\ pidStr = <<>>
    /\ ch = ERR
    /\ sent = <<>>
    /\ screen = "blank"
    /\ sampled = [sys |-> ZeroCpu, procs |-> {}]
    /\ emitted = <<>>
    /\ firstSeen = {}

\* the raw counters of a vector of processes
RawOf(procs) ==
    {<<procs[k].pid, procs[k].utime, procs[k].stime>> : k \in 1..Len(procs)}

----------------------------------------------------------------------------
(* Startup, main.cpp 420-429 *)

\* prevSysCpuTimes = getSystemCpuTimes(); getProcesses(1, 1) opens /proc
StartWarmup(cpuSrc, d) ==
    /\ pc = "start"
    /\ pc' = "scan"
    /\ prevSysCpuTimes' = GetSystemCpuTimes(cpuSrc)
    /\ sampled' = [sampled EXCEPT !.sys = GetSystemCpuTimes(cpuSrc)]
    /\ memTotal' = 1
    /\ totalDelta' = 1
    /\ dir' = IF d.open THEN d.entries ELSE <<>>
    /\ processes' = <<>>
    /\ firstSeen' = {}
    /\ UNCHANGED <<phase, exitStatus, currentSortMode, prevProcessTimes,
                   memUsed, currentSysCpuTimes, sysCpuUsage, i, pidStr, sent,
                   screen, emitted,
                   ch>>

\* One iteration of the readdir loop of getProcesses (warm-up and tick alike)
ReadDirEntry(f) ==
    /\ pc = "scan"
    /\ dir # <<>>
    /\ LET r == ProcessEntry(Head(dir), f, prevProcessTimes, memTotal,
                             totalDelta)
       IN  /\ pc' = IF r.kind = "throw" THEN "aborted" ELSE "scan"
           /\ processes' = IF r.kind = "emit" THEN Append(processes, r.p)
                           ELSE processes
           /\ firstSeen' = IF r.kind = "emit"
                              /\ r.p.pid \notin DOMAIN prevProcessTimes
                           THEN firstSeen \cup {r.p.pid} ELSE firstSeen
    /\ dir' = Tail(dir)
    /\ UNCHANGED <<phase, exitStatus, currentSortMode, prevSysCpuTimes,
                   prevProcessTimes, memTotal, memUsed, currentSysCpuTimes,
                   totalDelta, sysCpuUsage, i, pidStr, sent, screen, sampled, emitted,
                   ch>>

\* getProcesses(1, 1) returned: fill prevProcessTimes, usleep, enter the loop
FinishWarmup ==
    /\ pc = "scan"
    /\ phase = "warmup"
    /\ dir = <<>>
    /\ pc' = "idle"
    /\ phase' = "tick"
    /\ prevProcessTimes' = WarmupProcessTimes(prevProcessTimes, processes)
    /\ sampled' = [sampled EXCEPT !.procs = RawOf(processes)]
    /\ NoLocals
    /\ UNCHANGED <<exitStatus, currentSortMode, prevSysCpuTimes, i, pidStr,
                   sent, screen, ch>>

----------------------------------------------------------------------------
(* Main loop, part A: input (main.cpp 435-448) *)

\* key == 'q': break, endwin, return 0
Quit ==
    /\ pc = "idle"
    /\ pc' = "exited"
    /\ exitStatus' = 0
    /\ screen' = "ended"
    /\ UNCHANGED <<phase, currentSortMode, prevSysCpuTimes, prevProcessTimes,
                   memTotal, memUsed, currentSysCpuTimes, totalDelta,
                   sysCpuUsage, dir, processes, i, pidStr, sent, sampled,
                   firstSeen, emitted,
                   ch>>

\* the mode a sort key selects: 'c', 'm', 'p'
ModeOfKey(key) ==
    CASE key = 99 -> "BY_CPU" [] key = 109 -> "BY_MEM" [] key = 112 -> "BY_PID"

\* Variant: case 'p' without its break, falling through to case 'k'
SortKeyFallsThrough(key) ==
    /\ pc = "idle"
    /\ key \in SortKeys
    /\ pc' = IF key = 112 THEN "prompting" ELSE "gather"
    /\ screen' = IF key = 112 THEN "killWin" ELSE screen
    /\ currentSortMode' = ModeOfKey(key)
    /\ UNCHANGED <<phase, exitStatus, prevSysCpuTimes, prevProcessTimes,
                   memTotal, memUsed, currentSysCpuTimes, totalDelta,
                   sysCpuUsage, dir, processes, i, pidStr, sent, sampled,
                   firstSeen, emitted, ch>>

\* case 'c' / 'm' / 'p'
SortKey(key) ==
    /\ pc = "idle"
    /\ key \in SortKeys
    /\ pc' = "gather"
    /\ currentSortMode' = ModeOfKey(key)
    /\ UNCHANGED <<phase, exitStatus, prevSysCpuTimes, prevProcessTimes,
                   memTotal, memUsed, currentSysCpuTimes, totalDelta,
                   sysCpuUsage, dir, processes, i, pidStr, sent, screen,
                   sampled, firstSeen, emitted,
                   ch>>

\* a timeout (ERR) or a key the switch has no case for
NoActionKey(key) ==
    /\ pc = "idle"
    /\ key \notin SortKeys \cup {QuitKey, KillKey}
    /\ pc' = "gather"
    /\ UNCHANGED <<phase, exitStatus, currentSortMode, prevSysCpuTimes,
                   prevProcessTimes, memTotal, memUsed, currentSysCpuTimes,
                   totalDelta, sysCpuUsage, dir, processes, i, pidStr, sent,
                   screen, sampled, firstSeen, emitted,
                   ch>>

\* case 'k': killProcessWindow() draws its window and waits for a key
OpenKillWindow ==
    /\ pc = "idle"
    /\ pc' = "prompting"
    /\ i' = 0
    /\ pidStr' = <<>>
    /\ ch' = ERR
    /\ screen' = "killWin"
    /\ UNCHANGED <<phase, exitStatus, currentSortMode, prevSysCpuTimes,
                   prevProcessTimes, memTotal, memUsed, currentSysCpuTimes,
                   totalDelta, sysCpuUsage, dir, processes, sent, sampled,
                   firstSeen,
                   emitted>>

----------------------------------------------------------------------------
(* The kill modal, main.cpp 267-305 *)

\* Variant: the capacity test off by one (i <= 19)
BufferAfterKeyOffByOne(buf, key) ==
    IF key = KEY_BACKSPACE \/ key = KEY_DEL
    THEN IF Len(buf) > 0 THEN SubSeq(buf, 1, Len(buf) - 1) ELSE buf
    ELSE IF IsDigit(key) /\ Len(buf) <= MaxDigits THEN Append(buf, key)
    ELSE buf

\* the buffer after backspace, a digit or any other key (main.cpp 277-287)
BufferAfterKey(buf, key) ==
    IF key = KEY_BACKSPACE \/ key = KEY_DEL
    THEN IF Len(buf) > 0 THEN SubSeq(buf, 1, Len(buf) - 1) ELSE buf
    ELSE IF IsDigit(key) /\ Len(buf) < MaxDigits THEN Append(buf, key)
    ELSE buf

\* one pass of the while loop for a key that is neither Esc nor Enter
KillWindowKey(key) ==
    /\ pc = "prompting"
    /\ key \notin {KEY_ESC, KEY_ENTER}
    /\ ch' = key
    /\ pidStr' = BufferAfterKey(pidStr, key)
    /\ i' = Len(BufferAfterKey(pidStr, key))
    /\ UNCHANGED <<pc, phase, exitStatus, currentSortMode, prevSysCpuTimes,
                   prevProcessTimes, memTotal, memUsed, currentSysCpuTimes,
                   totalDelta, sysCpuUsage, dir, processes, sent, screen,
                   sampled, firstSeen,
                   emitted>>

\* Variant: atoi in place of stoi (0 without a number, no exception)
KillRequestsAtoi(buf) ==
    <<[pid |-> Stoi(buf).val, sig |-> SIGTERM]>>

\* the kill() calls of main.cpp 295-305 for the NUL-terminated buffer
KillRequests(buf) ==
    IF Stoi(buf).ok THEN <<[pid |-> Stoi(buf).val, sig |-> SIGTERM]>>
    ELSE <<>>

\* Variant: Esc without the early return of main.cpp 293
KillCancelWithoutReturn ==
    /\ pc = "prompting"
    /\ pc' = "modalDone"
    /\ ch' = KEY_ESC
    /\ i' = -1
    /\ sent' = KillRequests(pidStr)
    /\ UNCHANGED <<phase, exitStatus, currentSortMode, prevSysCpuTimes,
                   prevProcessTimes, memTotal, memUsed, currentSysCpuTimes,
                   totalDelta, sysCpuUsage, dir, processes, pidStr, screen,
                   sampled, firstSeen, emitted>>

\* Esc: i = -1, break, return without calling kill
KillCancel ==
    /\ pc = "prompting"
    /\ pc' = "modalDone"
    /\ ch' = KEY_ESC
    /\ i' = -1
    /\ sent' = <<>>
    /\ UNCHANGED <<phase, exitStatus, currentSortMode, prevSysCpuTimes,
                   prevProcessTimes, memTotal, memUsed, currentSysCpuTimes,
                   totalDelta, sysCpuUsage, dir, processes, pidStr, screen,
                   sampled, firstSeen,
                   emitted>>

\* Enter: pidStr[i] = '\0', break, stoi, kill
KillConfirm ==
    /\ pc = "prompting"
    /\ pc' = "modalDone"
    /\ ch' = KEY_ENTER
    /\ sent' = KillRequests(pidStr)
    /\ UNCHANGED <<phase, exitStatus, currentSortMode, prevSysCpuTimes,
                   prevProcessTimes, memTotal, memUsed, currentSysCpuTimes,
                   totalDelta, sysCpuUsage, dir, processes, i, pidStr, screen,
                   sampled, firstSeen,
                   emitted>>

\* Variant: continue after the kill window, back to getch without a tick
AfterKillSkipsTick ==
    /\ pc = "modalDone"
    /\ pc' = "idle"
    /\ screen' = "cleared"
    /\ i' = 0
    /\ pidStr' = <<>>
    /\ ch' = ERR
    /\ sent' = <<>>
    /\ UNCHANGED <<phase, exitStatus, currentSortMode, prevSysCpuTimes,
                   prevProcessTimes, memTotal, memUsed, currentSysCpuTimes,
                   totalDelta, sysCpuUsage, dir, processes, sampled,
                   firstSeen, emitted>>

\* killProcessWindow returned: clear(), break out of the switch
AfterKill ==
    /\ pc = "modalDone"
    /\ pc' = "gather"
    /\ screen' = "cleared"
    /\ i' = 0
    /\ pidStr' = <<>>
    /\ ch' = ERR
    /\ sent' = <<>>
    /\ UNCHANGED <<phase, exitStatus, currentSortMode, prevSysCpuTimes,
                   prevProcessTimes, memTotal, memUsed, currentSysCpuTimes,
                   totalDelta, sysCpuUsage, dir, processes, sampled,
                   firstSeen,
                   emitted>>

----------------------------------------------------------------------------
(* Main loop, parts B-D: gather, sort, store, draw (main.cpp 450-488) *)

\* getMemoryInfo, getSystemCpuTimes, the deltas, and getProcesses' opendir
GatherSystem(memSrc, cpuSrc, d) ==
    /\ pc = "gather"
    /\ pc' = "scan"
    /\ LET memInfo == GetMemoryInfo(memSrc)
           cur == GetSystemCpuTimes(cpuSrc)
       IN  /\ memTotal' = memInfo[1]
           /\ memUsed' = memInfo[1] - memInfo[2]
           /\ currentSysCpuTimes' = cur
           /\ totalDelta' = cur.total - prevSysCpuTimes.total
           /\ sysCpuUsage' = SysCpuUsage(cur.total - prevSysCpuTimes.total,
                                         cur.idle - prevSysCpuTimes.idle)
           /\ sampled' = [sampled EXCEPT !.sys = cur]
    /\ dir' = IF d.open THEN d.entries ELSE <<>>
    /\ processes' = <<>>
    /\ firstSeen' = {}
    /\ UNCHANGED <<phase, exitStatus, currentSortMode, prevSysCpuTimes,
                   prevProcessTimes, i, pidStr, sent, screen, emitted,
                   ch>>

\* getProcesses returned: std::sort, the store update, clear and the draw calls
FinishTick ==
    /\ pc = "scan"
    /\ phase = "tick"
    /\ dir = <<>>
    /\ pc' = "drawn"
    /\ \E L \in SortResults(processes, currentSortMode) :
          /\ processes' = L
          /\ prevProcessTimes' = UpdatePrevProcessTimes(prevProcessTimes, L)
    /\ prevSysCpuTimes' = currentSysCpuTimes
    /\ sampled' = [sampled EXCEPT !.procs = RawOf(processes)]
    /\ emitted' = processes
    /\ screen' = "main"
    /\ UNCHANGED <<phase, exitStatus, currentSortMode, memTotal, memUsed,
                   currentSysCpuTimes, totalDelta, sysCpuUsage, dir, i, pidStr,
                   sent, firstSeen, ch>>

\* end of the loop body: its locals go out of scope, back to getch
LoopBack ==
    /\ pc = "drawn"
    /\ pc' = "idle"
    /\ NoLocals
    /\ UNCHANGED <<phase, exitStatus, currentSortMode, prevSysCpuTimes,
                   prevProcessTimes, i, pidStr, sent, screen, sampled, ch>>

----------------------------------------------------------------------------
(* Specification *)

\* the digits '0' and '1' are typed only into the first MaxMixedPrefix
\* positions of the buffer; '9' is typed at any position
MaxMixedPrefix == 2

Typeable(key) == key \in {48, 49} => i < MaxMixedPrefix

Next ==
    \/ \E cpuSrc \in CpuSources, d \in ProcDirs : StartWarmup(cpuSrc, d)
    \/ \E f \in ProcFiles : ReadDirEntry(f)
    \/ FinishWarmup
    \/ Quit
    \/ \E key \in SortKeys : SortKey(key)
    \/ \E key \in OtherMainKeys : NoActionKey(key)
    \/ OpenKillWindow
    \/ \E key \in KillWindowKeys : Typeable(key) /\ KillWindowKey(key)
    \/ KillCancel
    \/ KillConfirm
    \/ AfterKill
    \/ \E memSrc \in MemSources, cpuSrc \in CpuSources, d \in ProcDirs :
          GatherSystem(memSrc, cpuSrc, d)
    \/ FinishTick
    \/ LoopBack

Spec == Init /\ [][Next]_vars

----------------------------------------------------------------------------
(* Properties *)

PrevAsTriples ==
    {<<pid, prevProcessTimes[pid][1], prevProcessTimes[pid][2]>> :
        pid \in DOMAIN prevProcessTimes}

\* between two ticks: waiting for a key, inside the kill modal, or about to
\* sample
AtTickStart == pc \in {"idle", "prompting", "modalDone", "gather"}

\* C1: at the start of every tick, whatever keys and kill-modal interactions
\* came before, prevSysCpuTimes is the system sample of the preceding tick (or
\* of the warm-up) and prevProcessTimes holds exactly the pids that sample
\* emitted, each with that sample's (utime, stime): nothing older survives.
PreviousSampleStoreFresh ==
    AtTickStart =>
        /\ prevSysCpuTimes = sampled.sys
        /\ PrevAsTriples = sampled.procs

\* a tick has replaced a two-process store by one that holds pid 2 alone
PreviousSampleStoreFreshWitness ==
    /\ pc = "idle"
    /\ screen = "main"
    /\ DOMAIN prevProcessTimes = {2}
    /\ prevSysCpuTimes.total = 1040

\* a percentage is >= 0 over a positive denominator and exactly 0 over a zero
\* denominator (and then a finite number at all)
WellDefined(x, denom) ==
    IF denom > 0 THEN x.den > 0 /\ x.num >= 0
    ELSE IF denom = 0 THEN x.den > 0 /\ x.num = 0
    ELSE TRUE

\* C2: in every tick each derived percentage (per-process cpuPercent and
\* memPercent, system cpuUsage, the memory percentage of the summary) is >= 0
\* when its denominator is > 0 and exactly 0 when its denominator is 0.
PercentagesWellDefined ==
    pc = "drawn" =>
        /\ \A k \in 1..Len(processes) :
              /\ WellDefined(processes[k].cpuPercent, totalDelta)
              /\ WellDefined(processes[k].memPercent, memTotal)
        /\ WellDefined(sysCpuUsage, totalDelta)
        /\ WellDefined(MemPercentShown(memUsed, memTotal), memTotal)

RECURSIVE StripLeadingZeros(_)
StripLeadingZeros(s) ==
    IF Len(s) > 1 /\ Head(s) = 48 THEN StripLeadingZeros(Tail(s)) ELSE s

RECURSIVE DecimalDigits(_)
DecimalDigits(n) ==
    IF n < 10 THEN <<48 + n>>
    ELSE Append(DecimalDigits(n \div 10), 48 + (n % 10))

RECURSIVE LexLeq(_, _)
LexLeq(a, b) ==
    \/ a = <<>>
    \/ Head(a) < Head(b)
    \/ Head(a) = Head(b) /\ LexLeq(Tail(a), Tail(b))

\* the number the digit string denotes is at most INT_MAX
FitsInt(buf) ==
    LET s == StripLeadingZeros(buf)
    IN  \/ Len(s) < Len(DecimalDigits(INT_MAX))
        \/ Len(s) = Len(DecimalDigits(INT_MAX))
           /\ LexLeq(s, DecimalDigits(INT_MAX))

\* exactly one SIGTERM, to the number the buffer denotes
OneRequestForBuffer ==
    /\ Len(sent) = 1
    /\ sent[1].sig = SIGTERM
    /\ sent[1].pid >= 0
    /\ DecimalDigits(sent[1].pid) = StripLeadingZeros(pidStr)

Confirmed == pc = "modalDone" /\ ch = KEY_ENTER

\* C3 (as claimed): whenever Enter ends the modal on a non-empty buffer of up
\* to 19 digits, exactly one SIGTERM is sent, to the decimal number in the
\* buffer.
ConfirmSendsOneRequest ==
    Confirmed /\ i >= 1 => OneRequestForBuffer

\* C3 (amended): whenever Enter ends the modal on a non-empty buffer whose
\* number is at most INT_MAX, exactly one SIGTERM is sent, to that number;
\* when the number exceeds INT_MAX no request is sent.
ConfirmSendsOneRequestIfInt ==
    Confirmed /\ i >= 1 =>
        IF FitsInt(pidStr) THEN OneRequestForBuffer ELSE sent = <<>>

\* Enter on the ten digits 1999999999, which still fit an int
ConfirmSendsOneRequestWitness ==
    /\ Confirmed
    /\ i = 10
    /\ sent = <<[pid |-> 1999999999, sig |-> SIGTERM]>>

\* C4: a modal ended by Esc, whatever the buffer holds, or by Enter on an
\* empty buffer sends no request and returns to the tick loop; a request is
\* only ever sent by a confirmed modal.
NoRequestWithoutConfirm ==
    /\ [](/\ sent # <<>> => Confirmed /\ i >= 1
          /\ pc = "modalDone" /\ (ch = KEY_ESC \/ i = 0) => sent = <<>>)
    /\ [][pc = "modalDone" => pc' = "gather" /\ sent' = <<>>]_vars

\* Esc pressed with two digits in the buffer
NoRequestWithoutConfirmWitness ==
    /\ pc = "modalDone"
    /\ ch = KEY_ESC
    /\ Len(pidStr) = 2
    /\ sent = <<>>

ModalExclusive ==
    [][/\ pc = "prompting" =>
            /\ pc' \in {"prompting", "modalDone"}
            /\ UNCHANGED <<phase, exitStatus, currentSortMode,
                           prevSysCpuTimes, prevProcessTimes, memTotal,
                           memUsed, currentSysCpuTimes, totalDelta,
                           sysCpuUsage, dir, processes, screen, sampled,
                           emitted, firstSeen>>
       /\ pc = "modalDone" => pc' = "gather" /\ screen' = "cleared"
       /\ pc = "gather" => pc' = "scan"
       /\ pc' = "drawn" =>
            /\ pc = "scan"
            /\ screen' = "main"
            /\ prevSysCpuTimes' = sampled'.sys
            /\ PrevAsTriples' = sampled'.procs
       /\ pc' = "idle" => pc = "drawn" \/ phase = "warmup"]_vars

\* 'q' typed inside the modal after a digit: the program is still prompting
ModalExclusiveWitness ==
    /\ pc = "prompting"
    /\ ch = 113
    /\ i = 1
    /\ exitStatus = -1

\* C7: no outcome of a tick's reads ends the loop; it ends only by 'q', with
\* exit status 0.
LoopEndsOnlyByQuit ==
    /\ phase = "tick" => pc # "aborted"
    /\ pc = "exited" => exitStatus = 0

\* C8: the records, the system usage and the store a tick produces are the
\* same under every sort mode (only the order differs); a sort key changes
\* currentSortMode and nothing else, and the mode changes at no other step.
SortModeOnlyOrders ==
    /\ [](pc = "drawn" =>
            \A m \in SortModes : \A L \in SortResults(emitted, m) :
                /\ Len(L) = Len(processes)
                /\ {L[k] : k \in 1..Len(L)}
                     = {processes[k] : k \in 1..Len(processes)}
                /\ RawOf(L) = PrevAsTriples)
    /\ [][/\ pc = "idle" /\ pc' = "gather" =>
                UNCHANGED <<phase, exitStatus, prevSysCpuTimes,
                            prevProcessTimes, memTotal, memUsed,
                            currentSysCpuTimes, totalDelta, sysCpuUsage, dir,
                            processes, i, pidStr, ch, sent, screen, sampled,
                            emitted, firstSeen>>
          /\ currentSortMode' # currentSortMode =>
                pc = "idle" /\ pc' = "gather"]_vars

\* by-pid mode has put two processes in another order than they were read
SortModeOnlyOrdersWitness ==
    /\ pc = "drawn"
    /\ currentSortMode = "BY_PID"
    /\ Len(processes) = 2
    /\ processes # emitted

\* C9: a process whose pid was not in the previous tick's table is charged no
\* CPU time from before the current interval: its processDelta is 0, not its
\* cumulative utime + stime.
NewProcessNotChargedLifetime ==
    phase = "tick" /\ pc \in {"scan", "drawn"} /\ totalDelta > 0 =>
        \A k \in 1..Len(processes) :
            processes[k].pid \in firstSeen => processes[k].cpuPercent.num = 0

\* C10: every termination request targets a pid > 0.
RequestsTargetPositivePid ==
    \A k \in 1..Len(sent) : sent[k].pid > 0

====
